---- MODULE Spec2Model ----
(***************************************************************************)
(* Loan calculator (src/app.js): annuity math, baseline generator and the  *)
(* applyUserChanges recomputation walk, with the DOM fields they read and  *)
(* write.                                                                  *)
(*                                                                         *)
(* Numbers.  JavaScript numbers are IEEE-754 doubles: every stored result  *)
(* is the exact result rounded to the nearest representable value.  The    *)
(* model keeps that: every stored number is an integer count of grid       *)
(* steps, and every product or quotient is rounded to the nearest step.    *)
(*   money            MoneyScale steps per currency unit                   *)
(*   monthly rate     RateScale steps per 1.0                              *)
(*   1 + r, (1+r)^n   PowScale steps per 1.0 (coarser than the rate grid,  *)
(*                    as 1 + r is coarser than r in a double)              *)
(*   annual rate (%)  AnnualScale steps per percent                        *)
(* Additions, subtractions and comparisons of two values on one grid are   *)
(* exact.                                                                  *)
(***************************************************************************)
EXTENDS Integers, Naturals, Sequences, FiniteSets, TLC

MoneyScale == 1000000
RateScale == 100000000
PowScale == 10000000
AnnualScale == 100
MaxInt == 2147483647

\* 0.0001, the payoff tolerance of both walks (balance <= 0.0001).
Tolerance == MoneyScale \div 10000

\* The iteration ceiling of applyUserChanges.
SAFE_MONTH_CAP == 5000

\* Number.POSITIVE_INFINITY: above every number of a grid.  The largest
\* finite number of a grid is MaxInt - 1 steps, as Number.MAX_VALUE is that of
\* the doubles; a product beyond it is Infinity.
Infinity == MaxInt

\* The empty string in a table input, and null in a row's roiChange.
Empty == -1

\* null in currentScenarioId.
null == ""

\* The texts of currentScenarioIdEl that are not an id.
NotSavedYet == "Not saved yet"

Modified == "Modified (not saved)"

(***************************************************************************)
(* Number arithmetic                                                       *)
(***************************************************************************)

\* x + y for 0 <= x, y < c as <<carry, (x + y) % c>>, with no intermediate
\* above c.
AddMod(x, y, c) ==
  IF x >= c - y THEN <<1, x - (c - y)>> ELSE <<0, x + y>>

\* Shift-and-add over the binary digits of b.  The state s = <<k, q, r>>
\* holds the weight k of the next digit and the quotient q and remainder r
\* of a * (the digits of b above k) by c.  MulDivBit takes the digit of
\* weight k: it doubles the remainder (dbl) and, when the digit is 1, adds
\* a (MulDivAdd).
MulDivAdd(s, q, add) == <<s[1] \div 2, q + add[1], add[2]>>

MulDivDigit(a, c, s, bit, dbl) ==
  IF bit = 1
  THEN MulDivAdd(s, 2 * s[2] + dbl[1] + a \div c, AddMod(dbl[2], a % c, c))
  ELSE <<s[1] \div 2, 2 * s[2] + dbl[1], dbl[2]>>

MulDivBit(a, b, c, s) ==
  IF s[1] = 0 THEN s
  ELSE MulDivDigit(a, c, s, (b \div s[1]) % 2, AddMod(s[3], s[3], c))

\* n digits from s on (in two halves, which keeps the evaluation shallow).
RECURSIVE MulDivBits(_, _, _, _, _)
MulDivBits(a, b, c, s, n) ==
  IF s[1] = 0 THEN s
  ELSE IF n = 1 THEN MulDivBit(a, b, c, s)
  ELSE MulDivBits(a, b, c, MulDivBits(a, b, c, s, n \div 2), n - n \div 2)

\* The quotient and remainder of the state s.
QuotRem(s) == <<s[2], s[3]>>

\* The weight of the top binary digit of an integer.
TopBit == 1073741824

\* The largest divisor whose square stays within the integer range.
MaxRoot == 46340

\* Numbers below a power of ten c are split into two limbs below Limb.
Limb == 10000

TenPowers == {Limb * 10, Limb * 100, Limb * 1000, Limb * Limb}

\* <<q + rest / c, rest % c>>
MulDivLow(q, rest, c) == <<q + rest \div c, rest % c>>

\* The product al * bl = hi * Limb^2 + mid * Limb + lo divided by c in
\* TenPowers: q holds hi * Limb^2 / c already, mid * Limb is
\* (mid / (c / Limb)) * c + (mid % (c / Limb)) * Limb.
MulDivMid(q, mid, lo, c) ==
  MulDivLow(q + mid \div (c \div Limb), (mid % (c \div Limb)) * Limb + lo, c)

\* whole + al * bl / c for al, bl < c and c in TenPowers, limb by limb.
MulDivLimbs(whole, al, bl, c) ==
  MulDivMid(whole + (al \div Limb) * (bl \div Limb) * ((Limb * Limb) \div c),
            (al \div Limb) * (bl % Limb) + (al % Limb) * (bl \div Limb),
            (al % Limb) * (bl % Limb), c)

\* a * b = ((a / c) * b + (a % c) * (b / c)) * c + (a % c) * (b % c)
MulDivWhole(a, b, c) == (a \div c) * b + (a % c) * (b \div c)

\* <<q, r>> with a * b = q * c + r and 0 <= r < c, computed without any
\* intermediate above the integer range (a, b >= 0, c > 0, q in range).
MulDiv(a, b, c) ==
  IF a = 0 \/ b = 0 THEN <<0, 0>>
  ELSE IF a <= MaxInt \div b THEN <<(a * b) \div c, (a * b) % c>>
  ELSE IF c \in TenPowers
  THEN MulDivLimbs(MulDivWhole(a, b, c), a % c, b % c, c)
  ELSE IF c <= MaxRoot
  THEN MulDivLow(MulDivWhole(a, b, c), (a % c) * (b % c), c)
  ELSE QuotRem(MulDivBits(a, b, c, <<TopBit, 0, 0>>, 32))

\* The quotient of h = <<q, r>> by c rounded to the nearest integer (ties up).
RoundHalfUp(h, c) == h[1] + (IF h[2] >= c - h[2] THEN 1 ELSE 0)

\* a * b / c rounded to the nearest integer.
MulDivRound(a, b, c) == RoundHalfUp(MulDiv(a, b, c), c)

Max(a, b) == IF a >= b THEN a ELSE b

Min(a, b) == IF a <= b THEN a ELSE b

\* annual / 12 / 100 on the rate grid.
MonthlyRate(annual) == MulDivRound(annual, RateScale \div (100 * AnnualScale), 12)

\* x + y, Infinity when a term is or the sum passes the largest number.
Plus(x, y) == IF x >= Infinity - y THEN Infinity ELSE x + y

\* balance * monthlyRate on the money grid, Infinity when the product passes
\* the largest number.
Times(amount, monthlyRate) ==
  IF monthlyRate > RateScale
     /\ amount >= MulDiv(Infinity, RateScale, monthlyRate)[1]
  THEN Infinity
  ELSE MulDivRound(amount, monthlyRate, RateScale)

\* 1 + r on the pow grid.
OnePlus(monthlyRate) == PowScale + MulDivRound(monthlyRate, PowScale, RateScale)

\* Like a double a power keeps its relative precision and loses absolute
\* precision as it grows: the grid of next (in steps of 1 / scale) is
\* coarsened tenfold when the value nears the top of the integer range.
Coarsen(next, scale) ==
  IF next > MaxInt \div 20 /\ scale >= 10
  THEN <<(next + 5) \div 10, scale \div 10>>
  ELSE <<next, scale>>

\* pow * (1 + r) for pow in steps of 1 / scale, as <<pow, scale>>.
PowStep(pow, scale, onePlus) ==
  Coarsen(MulDivRound(pow, onePlus, PowScale), scale)

\* n more multiplications by 1 + r of p = <<pow, scale>> (in two halves,
\* which keeps the evaluation shallow).
RECURSIVE PowFrom(_, _, _)
PowFrom(p, onePlus, n) ==
  IF n = 0 \/ p[1] < 0 THEN p
  ELSE IF n = 1 THEN PowStep(p[1], p[2], onePlus)
  ELSE PowFrom(PowFrom(p, onePlus, n \div 2), onePlus, n - n \div 2)

\* Math.pow(1 + r, months) as <<pow, scale>>, months >= 0.
Pow(monthlyRate, months) ==
  PowFrom(<<PowScale, PowScale>>, OnePlus(monthlyRate), months)

(***************************************************************************)
(* Annuity math                                                            *)
(***************************************************************************)

\* x + x / (pow - 1) for pow = p[1] in steps of 1 / p[2].
PlusShare(x, p) == x + MulDivRound(x, p[2], p[1] - p[2])

\* (principal * r * pow) / (pow - 1) for p = Math.pow(1 + r, months).  The
\* quotient is evaluated as (principal * r / (pow - 1)) * pow while pow - 1
\* fits the rate grid, and as principal * r + principal * r / (pow - 1)
\* above that, each factor rounded.
AnnuityQuotient(principal, monthlyRate, p) ==
  IF p[2] = PowScale /\ p[1] - p[2] <= MaxInt \div (RateScale \div PowScale)
  THEN MulDivRound(
         MulDivRound(principal, monthlyRate,
                     (p[1] - p[2]) * (RateScale \div PowScale)),
         p[1], p[2])
  ELSE PlusShare(Times(principal, monthlyRate), p)

\* calculateEMI with the division by months left out of its zero-rate branch.
calculateEMIUndivided(principal, monthlyRate, months) ==
  IF months <= 0 THEN 0
  ELSE IF principal <= 0 THEN 0
  ELSE IF monthlyRate = 0 THEN principal
  ELSE AnnuityQuotient(principal, monthlyRate, Pow(monthlyRate, months))

\* calculateEMI(principal, monthlyRate, months)
calculateEMI(principal, monthlyRate, months) ==
  IF months <= 0 THEN 0
  ELSE IF principal <= 0 THEN 0
  ELSE IF monthlyRate = 0 THEN MulDivRound(principal, 1, months)
  ELSE AnnuityQuotient(principal, monthlyRate, Pow(monthlyRate, months))

\* (1 + r)^m has reached emi / (emi - interest), for (1 + r)^m = q[1] in
\* steps of 1 / q[2].
Reached(emi, interest, q) == MulDiv(emi - interest, q[1], q[2])[1] >= emi

\* The search state <<pow, scale, m, reached>> for q = <<pow, scale>> the
\* power (1 + r)^m.
Advance(emi, interest, q, m) == <<q[1], q[2], m, Reached(emi, interest, q)>>

\* Up to n more multiplications by 1 + r, stopping once reached (in two
\* halves, which keeps the evaluation shallow).
RECURSIVE CeilLogChunk(_, _, _, _, _)
CeilLogChunk(emi, interest, onePlus, p, n) ==
  IF p[4] THEN p
  ELSE IF n = 1
  THEN Advance(emi, interest, PowStep(p[1], p[2], onePlus), p[3] + 1)
  ELSE CeilLogChunk(emi, interest, onePlus,
                    CeilLogChunk(emi, interest, onePlus, p, n \div 2),
                    n - n \div 2)

\* The least m with (1 + r)^m >= emi / (emi - interest), i.e.
\* Math.ceil(Math.log(emi / (emi - interest)) / Math.log(1 + r)).
\* The multiplications are made in runs of n, 8 * n, 64 * n, ...
RECURSIVE CeilLogRatio(_, _, _, _, _)
CeilLogRatio(emi, interest, onePlus, p, n) ==
  IF p[4] THEN p[3]
  ELSE CeilLogRatio(emi, interest, onePlus,
                    CeilLogChunk(emi, interest, onePlus, p, n), 8 * n)

\* The months to amortize at monthlyInterest = principal * monthlyRate.
MonthsAtInterest(emi, monthlyInterest, monthlyRate) ==
  IF emi <= monthlyInterest THEN Infinity
  ELSE CeilLogRatio(emi, monthlyInterest, OnePlus(monthlyRate),
                    Advance(emi, monthlyInterest, <<PowScale, PowScale>>, 0), 8)

\* calculateRemainingMonths(principal, emi, monthlyRate).  Every caller takes
\* Math.ceil of a finite result, so the operator returns that ceiling, and
\* Infinity when the function returns Infinity.
calculateRemainingMonths(principal, emi, monthlyRate) ==
  IF principal <= 0 THEN 0
  ELSE IF emi <= 0 THEN Infinity
  ELSE IF monthlyRate = 0 THEN (principal + emi - 1) \div emi
  ELSE MonthsAtInterest(emi, Times(principal, monthlyRate), monthlyRate)

isFinite(x) == x # Infinity

(***************************************************************************)
(* Inputs the model draws from                                             *)
(***************************************************************************)

\* Longest tenure typed into the tenure field.
MaxTenure == 3

\* Table inputs are edited in the rows of months 1..MaxEditMonth.
MaxEditMonth == 3

\* Edits (of a loan field or of a table input) the user makes after page load.
MaxEdits == 2

\* Loan amounts typed into the loan field: 0 and 20.
LoanAmounts == {0, 20 * MoneyScale}

\* Annual rates (percent) typed into the starting rate field: 0, 12 and 24.
AnnualRates == {0, 12 * AnnualScale, 24 * AnnualScale}

\* Annual rates (percent) typed into a rate-change input: 0, 24 and 1200.
RoiChangeRates == {0, 24 * AnnualScale, 1200 * AnnualScale}

\* Amounts typed into a disbursement input: 2.
DisbursementAmounts == {2 * MoneyScale}

\* Amounts typed into a prepayment input: 1 and 3 (below and above the
\* disbursement amount).
PrepaymentAmounts == {MoneyScale, 3 * MoneyScale}

EditMonths == 1..MaxEditMonth

\* Ids generateScenarioId returns (it reads the clock).
ScenarioIds == {"LOAN_A", "LOAN_B"}

(***************************************************************************)
(* State                                                                   *)
(***************************************************************************)

VARIABLES
  loanAmountEl,          \* value of the loan amount field (money)
  roiStartEl,            \* value of the starting rate field (annual percent)
  tenureEl,              \* value of the tenure field (months)
  table,                 \* the rendered amortization table and its inputs
  originalSchedule,      \* rows of the baseline
  currentSchedule,       \* rows of the current schedule
  origTotalInterestEl,   \* displayed totals, as the numbers their text parses to
  newTotalInterestEl,
  interestSavedEl,
  totalDisbursementsEl,
  completionMonthIndex,  \* months added to today for completionDateEl
  monthCount,            \* locals of applyUserChanges when its loop was left
  balance,
  monthlyRate,
  currentEMI,
  targetRemainingMonths,
  stalled,               \* the loop was left through the safety-check break
  currentScenarioId,     \* the id of the scenario on the page, or null
  currentScenarioIdEl,   \* the text of the scenario id field
  loadedScenarioData,    \* the parsed scenario file, or null (NoScenario)
  file,                  \* the scenario file last downloaded (NoScenario: none)
  loadScenarioBtnDisabled, \* loadScenarioBtnEl.disabled
  autoApplyTimers,       \* the auto-apply timers set and neither fired nor cleared
  autoApplyTimeout,      \* window.autoApplyTimeout: the timer set last (0: none)
  loadTimeout,           \* the 100 ms timer of loadScenario is pending
  burst,                 \* input events since the auto-apply timer last fired
  lastHandler,           \* the handler that ran last: "generate", "edit", "apply",
                         \* "save", "select", "rejected", "deselect", "load",
                         \* "loaded"
  applyStreak,           \* applies run since the last other handler (<= 2)
  edits,                 \* edits made since page load
  mathP, mathRate, mathN, mathEmi, mathMonths, mathPc  \* annuity-math harness

fieldVars == <<loanAmountEl, roiStartEl, tenureEl>>

displayVars == <<origTotalInterestEl, newTotalInterestEl, interestSavedEl,
                 totalDisbursementsEl, completionMonthIndex>>

walkVars == <<monthCount, balance, monthlyRate, currentEMI,
              targetRemainingMonths, stalled>>

mathVars == <<mathP, mathRate, mathN, mathEmi, mathMonths, mathPc>>

idVars == <<currentScenarioId, currentScenarioIdEl>>

scenarioVars == <<idVars, loadedScenarioData, file,
                 loadScenarioBtnDisabled, loadScenarioBtnDisabled>>

timerVars == <<autoApplyTimers, autoApplyTimeout, loadTimeout, burst>>

vars == <<fieldVars, table, originalSchedule, currentSchedule, displayVars,
          walkVars, scenarioVars, timerVars, lastHandler, applyStreak, edits,
          mathVars>>

(***************************************************************************)
(* Display and table                                                       *)
(***************************************************************************)

\* toCurrency(x) read back with Number(...): x rounded to two decimals.
toCurrency(x) ==
  IF x >= Infinity - MoneyScale \div 100 THEN Infinity
  ELSE MulDivRound(x, 1, MoneyScale \div 100) * (MoneyScale \div 100)

\* The sum of the interest of rows lo..hi (additions on one grid are exact,
\* so the order of the additions does not matter).
RECURSIVE SumInterestOf(_, _, _)
SumInterestOf(rows, lo, hi) ==
  IF lo > hi THEN 0
  ELSE IF lo = hi THEN rows[lo].interest
  ELSE LET mid == (lo + hi) \div 2
       IN  Plus(SumInterestOf(rows, lo, mid), SumInterestOf(rows, mid + 1, hi))

\* schedule.reduce((s, r) => s + Number(r.interest || 0), 0)
SumInterest(rows) == SumInterestOf(rows, 1, Len(rows))

\* The sum of the disbursement of rows lo..hi.
RECURSIVE SumDisbursementOf(_, _, _)
SumDisbursementOf(rows, lo, hi) ==
  IF lo > hi THEN 0
  ELSE IF lo = hi THEN rows[lo].disbursement
  ELSE LET mid == (lo + hi) \div 2
       IN  SumDisbursementOf(rows, lo, mid) + SumDisbursementOf(rows, mid + 1, hi)

\* currentSchedule.reduce((s, r) => s + Number(r.disbursement || 0), 0) of
\* generateSummaryReport.
SumDisbursement(rows) == SumDisbursementOf(rows, 1, Len(rows))

\* renderSchedule with the rate input filled by row.roiChange || "": a rate
\* change to 0 is rendered as the empty string.
renderScheduleFalsy(rows) ==
  [rows   |-> Len(rows),
   disb   |-> [m \in EditMonths |-> IF m <= Len(rows) THEN rows[m].disbursement ELSE 0],
   prepay |-> [m \in EditMonths |-> IF m <= Len(rows) THEN rows[m].prepayment ELSE 0],
   roi    |-> [m \in EditMonths |->
                 IF m <= Len(rows) /\ rows[m].roiChange # 0
                 THEN rows[m].roiChange ELSE Empty]]

\* renderSchedule(schedule): one table row per schedule row, each input
\* holding the row's value (an empty rate input for roiChange null).
renderSchedule(rows) ==
  [rows   |-> Len(rows),
   disb   |-> [m \in EditMonths |-> IF m <= Len(rows) THEN rows[m].disbursement ELSE 0],
   prepay |-> [m \in EditMonths |-> IF m <= Len(rows) THEN rows[m].prepayment ELSE 0],
   roi    |-> [m \in EditMonths |-> IF m <= Len(rows) THEN rows[m].roiChange ELSE Empty]]

\* The three maps applyUserChanges fills from the inputs of the table tbl,
\* as the lookups the loop makes for the month with idxForInputs = month - 1.
disbursementsMapGet(tbl, month) ==
  IF month \in EditMonths /\ month <= tbl.rows /\ tbl.disb[month] > 0
  THEN tbl.disb[month] ELSE 0

prepaymentsMapGet(tbl, month) ==
  IF month \in EditMonths /\ month <= tbl.rows /\ tbl.prepay[month] > 0
  THEN tbl.prepay[month] ELSE 0

roiMapHas(tbl, month) ==
  /\ month \in EditMonths
  /\ month <= tbl.rows
  /\ tbl.roi[month] # Empty
  /\ tbl.roi[month] >= 0

roiMapGet(tbl, month) == tbl.roi[month]

\* The principal portion without the cap at the balance.
PrincipalPortionUncapped(emi, interest, bal) ==
  IF emi - interest < 0 THEN 0 ELSE emi - interest

\* The principal portion of an EMI: emi - interest, floored at 0 and capped
\* at the balance.
PrincipalPortion(emi, interest, bal) ==
  LET p0 == emi - interest
      p1 == IF p0 < 0 THEN 0 ELSE p0
  IN  IF p1 > bal THEN bal ELSE p1

(***************************************************************************)
(* Scenario data                                                           *)
(***************************************************************************)

\* No scenario: null in loadedScenarioData, and no file downloaded yet.
NoScenario ==
  [id            |-> null,
   loanAmount    |-> 0,
   roiStart      |-> 0,
   tenureMonths  |-> 0,
   disbursements |-> [m \in EditMonths |-> 0],
   prepayments   |-> [m \in EditMonths |-> 0],
   roiChanges    |-> [m \in EditMonths |-> Empty]]

\* collectScenarioData() on the table tbl, under the id: the loan fields and
\* the three maps of the inputs that hold a value (0 and Empty stand for an
\* absent key; the key of month m is the data-idx m - 1).
collectScenarioData(id, tbl) ==
  [id            |-> id,
   loanAmount    |-> loanAmountEl,
   roiStart      |-> roiStartEl,
   tenureMonths  |-> tenureEl,
   disbursements |-> [m \in EditMonths |->
                        IF m <= tbl.rows /\ tbl.disb[m] > 0 THEN tbl.disb[m] ELSE 0],
   prepayments   |-> [m \in EditMonths |->
                        IF m <= tbl.rows /\ tbl.prepay[m] > 0 THEN tbl.prepay[m] ELSE 0],
   roiChanges    |-> [m \in EditMonths |->
                        IF m <= tbl.rows THEN tbl.roi[m] ELSE Empty]]

\* The check of reader.onload: a file passes when none of id, loanAmount,
\* roiStart and tenureMonths is falsy.
ValidScenarioFile(jsonData) ==
  /\ jsonData.id # null
  /\ jsonData.loanAmount # 0
  /\ jsonData.roiStart # 0
  /\ jsonData.tenureMonths # 0

\* The table after the timer of loadScenario has set the inputs that exist
\* to the values of the loaded maps.
SetInputs(tbl, data) ==
  [rows   |-> tbl.rows,
   disb   |-> [m \in EditMonths |->
                 IF m <= tbl.rows /\ data.disbursements[m] # 0
                 THEN data.disbursements[m] ELSE tbl.disb[m]],
   prepay |-> [m \in EditMonths |->
                 IF m <= tbl.rows /\ data.prepayments[m] # 0
                 THEN data.prepayments[m] ELSE tbl.prepay[m]],
   roi    |-> [m \in EditMonths |->
                 IF m <= tbl.rows /\ data.roiChanges[m] # Empty
                 THEN data.roiChanges[m] ELSE tbl.roi[m]]]

(***************************************************************************)
(* generateBaseline                                                        *)
(***************************************************************************)

\* The for loop of generateBaseline from month i on; BaselineMonth is its
\* body once the month's interest is known, BaselinePush the body from
\* balance -= principal on.
RECURSIVE BaselineLoop(_, _, _, _, _, _)
RECURSIVE BaselineMonth(_, _, _, _, _, _, _)
RECURSIVE BaselinePush(_, _, _, _, _, _, _, _)
BaselineLoop(i, n, bal, rate, baselineEMI, rows) ==
  IF i > n THEN rows
  ELSE BaselineMonth(i, n, bal, rate, baselineEMI, rows, Times(bal, rate))

BaselineMonth(i, n, bal, rate, baselineEMI, rows, interest) ==
  BaselinePush(i, n, bal, rate, baselineEMI, rows, interest,
               PrincipalPortion(baselineEMI, interest, bal))

BaselinePush(i, n, bal, rate, baselineEMI, rows, interest, principal) ==
  LET row == [monthIndex   |-> i,
              emi          |-> baselineEMI,
              interest     |-> interest,
              principal    |-> principal,
              disbursement |-> 0,
              prepayment   |-> 0,
              roiChange    |-> Empty,
              balance      |-> Max(bal - principal, 0)]
  IN  IF bal - principal <= Tolerance THEN Append(rows, row)
      ELSE BaselineLoop(i + 1, n, bal - principal, rate, baselineEMI,
                        Append(rows, row))

BaselineRows(P, annualRate, n) ==
  BaselineLoop(1, n, P, MonthlyRate(annualRate),
               calculateEMI(P, MonthlyRate(annualRate), n), <<>>)

\* generateBaseline() reading the loan terms P, annualRate, n from the fields
\* while loadedScenarioData is loaded and the scenario id is id, shown as idEl.
GenerateBaselineOn(P, annualRate, n, loaded, id, idEl) ==
  /\ \E rows \in {BaselineRows(P, annualRate, n)} :
         /\ originalSchedule' = rows
         /\ currentSchedule' = rows
         /\ table' = renderSchedule(rows)
         /\ origTotalInterestEl' = toCurrency(SumInterest(rows))
         /\ newTotalInterestEl' = toCurrency(SumInterest(rows))
         /\ completionMonthIndex' = Len(rows)
  /\ interestSavedEl' = toCurrency(0)
  /\ totalDisbursementsEl' = toCurrency(0)
  /\ currentScenarioId' = IF loaded = NoScenario THEN null ELSE id
  /\ currentScenarioIdEl' = IF loaded = NoScenario THEN NotSavedYet ELSE idEl

\* A click on Generate Baseline (or Ctrl+G).
generateBaseline ==
  /\ GenerateBaselineOn(loanAmountEl, roiStartEl, tenureEl, loadedScenarioData,
                        currentScenarioId, currentScenarioIdEl)
  /\ lastHandler' = "generate"
  /\ applyStreak' = 0
  /\ UNCHANGED <<fieldVars, walkVars, loadedScenarioData, file,
                 loadScenarioBtnDisabled, timerVars,
                 edits, mathVars>>

(***************************************************************************)
(* Edits of the loan fields and of the table inputs                        *)
(***************************************************************************)

Edited ==
  /\ edits < MaxEdits
  /\ edits' = edits + 1
  /\ lastHandler' = "edit"
  /\ applyStreak' = 0
  /\ UNCHANGED <<originalSchedule, currentSchedule, displayVars, walkVars,
                 loadedScenarioData, file,
                 loadScenarioBtnDisabled, loadTimeout, mathVars>>

\* The change listener of the three loan fields.
FieldChanged ==
  /\ currentScenarioId' = null
  /\ currentScenarioIdEl' =
       IF currentScenarioId # null THEN Modified ELSE currentScenarioIdEl
  /\ UNCHANGED <<table, autoApplyTimers, autoApplyTimeout, burst>>
  /\ Edited

SetLoanAmount ==
  /\ \E v \in LoanAmounts : loanAmountEl' = v /\ v # loanAmountEl
  /\ UNCHANGED <<roiStartEl, tenureEl>>
  /\ FieldChanged

SetRoiStart ==
  /\ \E v \in AnnualRates : roiStartEl' = v /\ v # roiStartEl
  /\ UNCHANGED <<loanAmountEl, tenureEl>>
  /\ FieldChanged

SetTenure ==
  /\ \E v \in 0..MaxTenure : tenureEl' = v /\ v # tenureEl
  /\ UNCHANGED <<loanAmountEl, roiStartEl>>
  /\ FieldChanged

\* The input listener without its clearTimeout.
RestartTimerUncleared(timers, last, new) == timers \cup {new}

\* clearTimeout(window.autoApplyTimeout) and the setTimeout of the timer new.
RestartTimer(timers, last, new) == (timers \ {last}) \cup {new}

\* The user types into one input of the table row of month m: the input
\* listener restarts the auto-apply timer.
EditCell(m, kind, v) ==
  /\ m <= table.rows
  /\ table[kind][m] # v
  /\ table' = [table EXCEPT ![kind][m] = v]
  /\ autoApplyTimers' = RestartTimer(autoApplyTimers, autoApplyTimeout, edits + 1)
  /\ autoApplyTimeout' = edits + 1
  /\ burst' = IF autoApplyTimers = {} THEN 1 ELSE burst + 1
  /\ UNCHANGED <<fieldVars, idVars>>
  /\ Edited

EditDisbursement ==
  \E m \in EditMonths, v \in DisbursementAmounts \cup {0} :
     EditCell(m, "disb", v)

EditPrepayment ==
  \E m \in EditMonths, v \in PrepaymentAmounts \cup {0} :
     EditCell(m, "prepay", v)

EditRoi ==
  \E m \in EditMonths, v \in RoiChangeRates \cup {Empty} :
     EditCell(m, "roi", v)

(***************************************************************************)
(* applyUserChanges                                                        *)
(***************************************************************************)

\* The locals after the entry code: the initial EMI and the loop variable.
WalkInit(P, annualRate, originalTenure) ==
  [monthCount            |-> 1,
   balance               |-> P,
   monthlyRate           |-> MonthlyRate(annualRate),
   currentEMI            |-> calculateEMI(P, MonthlyRate(annualRate),
                                          Max(1, originalTenure)),
   targetRemainingMonths |-> originalTenure,
   totalInterest         |-> 0,
   totalDisbursements    |-> 0,
   schedule              |-> <<>>,
   stalled               |-> FALSE]

\* The loop condition with the month counter compared one too late.
LoopConditionLate(w) ==
  w.monthCount <= SAFE_MONTH_CAP + 1 /\ w.balance > Tolerance

\* The loop condition of the for statement.
LoopCondition(w) == w.monthCount <= SAFE_MONTH_CAP /\ w.balance > Tolerance

\* Step 4 without its else branch: a net prepayment leaves the balance.
NetBalanceNoPrepayment(bal, netDisbursement) ==
  IF netDisbursement > 0 THEN bal + netDisbursement ELSE bal

\* The balance after the month's net disbursement (step 4).
NetBalance(bal, netDisbursement) ==
  IF netDisbursement > 0 THEN bal + netDisbursement
  ELSE IF netDisbursement < 0 THEN Max(0, bal + netDisbursement)
  ELSE bal

\* <<emiChanged, currentEMI>> for the recomputed newEMI: it replaces the
\* EMI when it is positive.
EmiIfPositive(newEMI, emi) ==
  IF newEMI > 0 THEN <<TRUE, newEMI>> ELSE <<FALSE, emi>>

\* The net-disbursement rule spreading the balance over one month more.
EmiAfterDisbursementLong(netDisbursement, bal, oldMonthlyRate, emi, target, month) ==
  IF netDisbursement > 0 /\ bal > Tolerance /\ target - month > 0
  THEN EmiIfPositive(calculateEMI(bal, oldMonthlyRate, target - month + 1), emi)
  ELSE <<FALSE, emi>>

\* The net-disbursement rule of step 7: <<emiChanged, currentEMI>>, the EMI
\* recomputed with the OLD rate over the months left to the target.
EmiAfterDisbursement(netDisbursement, bal, oldMonthlyRate, emi, target, month) ==
  IF netDisbursement > 0 /\ bal > Tolerance /\ target - month > 0
  THEN EmiIfPositive(calculateEMI(bal, oldMonthlyRate, target - month), emi)
  ELSE <<FALSE, emi>>

\* The new target without monthCount added to the months left.
TargetIfFiniteUnanchored(calculatedMonths, target, month) ==
  IF isFinite(calculatedMonths) THEN calculatedMonths ELSE target

\* targetRemainingMonths for the calculatedMonths of calculateRemainingMonths.
TargetIfFinite(calculatedMonths, target, month) ==
  IF isFinite(calculatedMonths) THEN month + calculatedMonths ELSE target

\* targetRemainingMonths with the pure-prepayment rule left out.
TargetAfterRateOnly(netDisbursement, roiChanged, emiChanged, bal, emi, rate, target, month) ==
  IF roiChanged
  THEN TargetIfFinite(calculateRemainingMonths(bal, emi, rate), target, month)
  ELSE target

\* targetRemainingMonths after the rate-change rule and the pure-prepayment
\* rule; both take monthCount + Math.ceil(calculateRemainingMonths(..)) when
\* that is finite.
TargetAfter(netDisbursement, roiChanged, emiChanged, bal, emi, rate, target, month) ==
  IF roiChanged \/ (netDisbursement < 0 /\ ~emiChanged)
  THEN TargetIfFinite(calculateRemainingMonths(bal, emi, rate), target, month)
  ELSE target

\* The safety check after the row is pushed.
StallGuardAnyCashFlow(principal, prepay, disbursement, bal) ==
  principal = 0 /\ bal > Tolerance

StallGuard(principal, prepay, disbursement, bal) ==
  principal = 0 /\ prepay = 0 /\ disbursement = 0 /\ bal > Tolerance

\* disbursement - prepay of the month.
NetDisbursement(tbl, month) ==
  disbursementsMapGet(tbl, month) - prepaymentsMapGet(tbl, month)

\* monthlyRate after the month's rate change, if it has one.
RateOfMonth(w, tbl) ==
  IF roiMapHas(tbl, w.monthCount)
  THEN MonthlyRate(roiMapGet(tbl, w.monthCount))
  ELSE w.monthlyRate

\* The push of the month recording the netted cash flow.
WalkPushNetted(w, tbl, interest, principal, bal, recompute, newRate) ==
  [monthCount            |->
     IF StallGuard(principal, prepaymentsMapGet(tbl, w.monthCount),
                   disbursementsMapGet(tbl, w.monthCount), bal)
     THEN w.monthCount ELSE w.monthCount + 1,
   balance               |-> bal,
   monthlyRate           |-> newRate,
   currentEMI            |-> recompute[2],
   targetRemainingMonths |->
     TargetAfter(NetDisbursement(tbl, w.monthCount),
                 roiMapHas(tbl, w.monthCount), recompute[1], bal,
                 recompute[2], newRate, w.targetRemainingMonths, w.monthCount),
   totalInterest         |-> Plus(w.totalInterest, interest),
   totalDisbursements    |->
     IF NetDisbursement(tbl, w.monthCount) > 0
     THEN w.totalDisbursements + disbursementsMapGet(tbl, w.monthCount)
     ELSE w.totalDisbursements,
   schedule              |->
     Append(w.schedule,
            [monthIndex   |-> w.monthCount,
             emi          |-> recompute[2],
             interest     |-> interest,
             principal    |-> principal,
             disbursement |-> Max(NetDisbursement(tbl, w.monthCount), 0),
             prepayment   |-> Max(0 - NetDisbursement(tbl, w.monthCount), 0),
             roiChange    |-> IF roiMapHas(tbl, w.monthCount)
                              THEN roiMapGet(tbl, w.monthCount)
                              ELSE Empty,
             balance      |-> Max(bal, 0)]),
   stalled               |->
     StallGuard(principal, prepaymentsMapGet(tbl, w.monthCount),
                disbursementsMapGet(tbl, w.monthCount), bal)]

\* The end of an iteration: the row is pushed and the safety check made;
\* the loop variable is incremented unless the check breaks out.  recompute
\* is <<emiChanged, currentEMI>>.
WalkPush(w, tbl, interest, principal, bal, recompute, newRate) ==
  [monthCount            |->
     IF StallGuard(principal, prepaymentsMapGet(tbl, w.monthCount),
                   disbursementsMapGet(tbl, w.monthCount), bal)
     THEN w.monthCount ELSE w.monthCount + 1,
   balance               |-> bal,
   monthlyRate           |-> newRate,
   currentEMI            |-> recompute[2],
   targetRemainingMonths |->
     TargetAfter(NetDisbursement(tbl, w.monthCount),
                 roiMapHas(tbl, w.monthCount), recompute[1], bal,
                 recompute[2], newRate, w.targetRemainingMonths, w.monthCount),
   totalInterest         |-> Plus(w.totalInterest, interest),
   totalDisbursements    |->
     IF NetDisbursement(tbl, w.monthCount) > 0
     THEN w.totalDisbursements + disbursementsMapGet(tbl, w.monthCount)
     ELSE w.totalDisbursements,
   schedule              |->
     Append(w.schedule,
            [monthIndex   |-> w.monthCount,
             emi          |-> recompute[2],
             interest     |-> interest,
             principal    |-> principal,
             disbursement |-> disbursementsMapGet(tbl, w.monthCount),
             prepayment   |-> prepaymentsMapGet(tbl, w.monthCount),
             roiChange    |-> IF roiMapHas(tbl, w.monthCount)
                              THEN roiMapGet(tbl, w.monthCount)
                              ELSE Empty,
             balance      |-> Max(bal, 0)]),
   stalled               |->
     StallGuard(principal, prepaymentsMapGet(tbl, w.monthCount),
                disbursementsMapGet(tbl, w.monthCount), bal)]

\* Steps 6 and 7 with the rate change applied before the EMI is recomputed.
WalkAdjustNewRate(w, tbl, interest, principal, bal) ==
  WalkPush(w, tbl, interest, principal, bal,
           EmiAfterDisbursement(NetDisbursement(tbl, w.monthCount), bal,
                                RateOfMonth(w, tbl), w.currentEMI,
                                w.targetRemainingMonths, w.monthCount),
           RateOfMonth(w, tbl))

\* Steps 6 and 7 for the balance bal after the net disbursement.
WalkAdjust(w, tbl, interest, principal, bal) ==
  WalkPush(w, tbl, interest, principal, bal,
           EmiAfterDisbursement(NetDisbursement(tbl, w.monthCount), bal,
                                w.monthlyRate, w.currentEMI,
                                w.targetRemainingMonths, w.monthCount),
           RateOfMonth(w, tbl))

\* Steps 3 and 4 for the month's principal.
WalkNetDisbursement(w, tbl, interest, principal) ==
  WalkAdjust(w, tbl, interest, principal,
             NetBalance(w.balance - principal, NetDisbursement(tbl, w.monthCount)))

\* Step 2 with the whole EMI taken as principal.
WalkPrincipalWholeEmi(w, tbl, interest) ==
  WalkNetDisbursement(w, tbl, interest,
                      PrincipalPortion(w.currentEMI, 0, w.balance))

\* Step 2 for the month's interest.
WalkPrincipal(w, tbl, interest) ==
  WalkNetDisbursement(w, tbl, interest,
                      PrincipalPortion(w.currentEMI, interest, w.balance))

\* An iteration charging the month's interest at the month's new rate.
WalkStepNewRate(w, tbl) ==
  WalkPrincipal(w, tbl, Times(w.balance, RateOfMonth(w, tbl)))

\* One iteration of the for loop on the locals w, reading the inputs of tbl.
WalkStep(w, tbl) == WalkPrincipal(w, tbl, Times(w.balance, w.monthlyRate))

\* Up to n iterations of the for loop from the locals w on (in two halves,
\* which keeps the evaluation shallow).
RECURSIVE WalkChunk(_, _, _)
WalkChunk(w, tbl, n) ==
  IF w.stalled \/ ~LoopCondition(w) THEN w
  ELSE IF n = 1 THEN WalkStep(w, tbl)
  ELSE WalkChunk(WalkChunk(w, tbl, n \div 2), tbl, n - n \div 2)

\* The for loop from the locals w on, until its condition fails or the
\* safety check breaks out (in runs of n, 8 * n, 64 * n, ... iterations,
\* none longer than the months left to the ceiling).
RECURSIVE WalkRun(_, _, _)
WalkRun(w, tbl, n) ==
  IF w.stalled \/ ~LoopCondition(w) THEN w
  ELSE WalkRun(WalkChunk(w, tbl,
                         Max(1, Min(n, SAFE_MONTH_CAP + 1 - w.monthCount))),
               tbl, 8 * n)

\* applyUserChanges(): read the fields and the table inputs, walk the
\* months, publish and render the schedule, update the totals.
ApplyUserChangesOn(tbl) ==
  \E w \in {WalkRun(WalkInit(loanAmountEl, roiStartEl, tenureEl), tbl, 8)} :
  LET newTotalInterest  == SumInterest(w.schedule)
      origTotalInterest == origTotalInterestEl
      saved             == Max(0, origTotalInterest - newTotalInterest)
      cleared           == currentScenarioId # null /\ loadedScenarioData = NoScenario
  IN  /\ currentSchedule' = w.schedule
      /\ table' = renderSchedule(w.schedule)
      /\ interestSavedEl' = toCurrency(saved)
      /\ newTotalInterestEl' = toCurrency(newTotalInterest)
      /\ totalDisbursementsEl' = toCurrency(w.totalDisbursements)
      /\ completionMonthIndex' = Len(w.schedule)
      /\ monthCount' = w.monthCount
      /\ balance' = w.balance
      /\ monthlyRate' = w.monthlyRate
      /\ currentEMI' = w.currentEMI
      /\ targetRemainingMonths' = w.targetRemainingMonths
      /\ stalled' = w.stalled
      /\ currentScenarioId' = IF cleared THEN null ELSE currentScenarioId
      /\ currentScenarioIdEl' = IF cleared THEN Modified ELSE currentScenarioIdEl
      /\ UNCHANGED <<fieldVars, originalSchedule, origTotalInterestEl,
                     loadedScenarioData, file,
                 loadScenarioBtnDisabled, edits, mathVars>>

\* A click on Apply Changes (or Ctrl+R): applyUserChanges() on the table.
applyUserChanges ==
  /\ ApplyUserChangesOn(table)
  /\ lastHandler' = "apply"
  /\ applyStreak' = Min(2, applyStreak + 1)
  /\ UNCHANGED timerVars

\* The auto-apply timer fires, 500 ms after the input event that set it.
AutoApplyTimeout ==
  /\ \E t \in autoApplyTimers : autoApplyTimers' = autoApplyTimers \ {t}
  /\ ApplyUserChangesOn(table)
  /\ lastHandler' = "apply"
  /\ applyStreak' = Min(2, applyStreak + 1)
  /\ UNCHANGED <<autoApplyTimeout, loadTimeout, burst>>

(***************************************************************************)
(* Saving and loading a scenario                                           *)
(***************************************************************************)

\* saveScenario() (Save click or Ctrl+S): a scenario without an id gets one,
\* and the file of the collected data is downloaded.
saveScenario ==
  /\ \E id \in (IF currentScenarioId = null THEN ScenarioIds
                 ELSE {currentScenarioId}) :
        /\ currentScenarioId' = id
        /\ currentScenarioIdEl' =
             IF currentScenarioId = null THEN id ELSE currentScenarioIdEl
        /\ file' = collectScenarioData(id, table)
  /\ lastHandler' = "save"
  /\ applyStreak' = 0
  /\ UNCHANGED <<fieldVars, table, originalSchedule, currentSchedule,
                 displayVars, walkVars, loadedScenarioData,
                 loadScenarioBtnDisabled, timerVars, edits,
                 mathVars>>

\* handleFileSelection() with the downloaded file chosen, and the onload
\* callback of its reader: the parsed file is kept if it passes the check,
\* and loadedScenarioData is null if it does not.
handleFileSelection ==
  /\ file # NoScenario
  /\ loadedScenarioData' =
       IF ValidScenarioFile(file) THEN file ELSE NoScenario
  /\ loadScenarioBtnDisabled' = ~ValidScenarioFile(file)
  /\ lastHandler' = "select"
  /\ applyStreak' = 0
  /\ UNCHANGED <<fieldVars, table, originalSchedule, currentSchedule,
                 displayVars, walkVars, idVars, file, timerVars, edits,
                 mathVars>>

\* loadScenario() (Load click) with scenario data loaded: the fields and the
\* id are set, the baseline is generated and the 100 ms timer is set.
loadScenario ==
  /\ ~loadScenarioBtnDisabled
  /\ loadedScenarioData # NoScenario
  /\ ~loadTimeout
  /\ loanAmountEl' = loadedScenarioData.loanAmount
  /\ roiStartEl' = loadedScenarioData.roiStart
  /\ tenureEl' = loadedScenarioData.tenureMonths
  /\ GenerateBaselineOn(loadedScenarioData.loanAmount,
                        loadedScenarioData.roiStart,
                        loadedScenarioData.tenureMonths, loadedScenarioData,
                        loadedScenarioData.id, loadedScenarioData.id)
  /\ loadTimeout' = TRUE
  /\ lastHandler' = "load"
  /\ applyStreak' = 0
  /\ UNCHANGED <<walkVars, loadedScenarioData, file,
                 loadScenarioBtnDisabled, autoApplyTimers,
                 autoApplyTimeout, burst, edits, mathVars>>

\* The timer of loadScenario fires: the inputs are set from the loaded maps
\* and applyUserChanges() runs.  With loadedScenarioData null by then the
\* callback throws at its first line.
LoadTimeout ==
  /\ loadTimeout
  /\ loadTimeout' = FALSE
  /\ IF loadedScenarioData = NoScenario
     THEN UNCHANGED <<fieldVars, table, originalSchedule, currentSchedule,
                      displayVars, walkVars, scenarioVars, lastHandler,
                      applyStreak, edits, mathVars>>
     ELSE /\ ApplyUserChangesOn(SetInputs(table, loadedScenarioData))
          /\ lastHandler' = "loaded"
          /\ applyStreak' = 0
  /\ UNCHANGED <<autoApplyTimers, autoApplyTimeout, burst>>

(***************************************************************************)
(* Specifications                                                          *)
(***************************************************************************)

\* applyUserChanges has not run: its locals do not exist.
NoWalk ==
  /\ monthCount = 1
  /\ balance = 0
  /\ monthlyRate = 0
  /\ currentEMI = 0
  /\ targetRemainingMonths = 0
  /\ stalled = FALSE

MathIdle ==
  /\ mathP = 0 /\ mathRate = 0 /\ mathN = 0
  /\ mathEmi = 0 /\ mathMonths = 0 /\ mathPc = "off"

\* The page once the load handler has run generateBaseline on the fields.
Loaded ==
  /\ \E rows \in {BaselineRows(loanAmountEl, roiStartEl, tenureEl)} :
         /\ originalSchedule = rows
         /\ currentSchedule = rows
         /\ table = renderSchedule(rows)
         /\ origTotalInterestEl = toCurrency(SumInterest(rows))
         /\ newTotalInterestEl = toCurrency(SumInterest(rows))
         /\ completionMonthIndex = Len(rows)
  /\ interestSavedEl = 0
  /\ totalDisbursementsEl = 0
  /\ NoWalk
  /\ currentScenarioId = null
  /\ currentScenarioIdEl = NotSavedYet
  /\ loadedScenarioData = NoScenario
  /\ file = NoScenario
  /\ loadScenarioBtnDisabled = TRUE
  /\ autoApplyTimers = {}
  /\ autoApplyTimeout = 0
  /\ loadTimeout = FALSE
  /\ burst = 0
  /\ lastHandler = "generate"
  /\ applyStreak = 0
  /\ edits = 0

\* The page after load with the fields holding any of the inputs.
Init ==
  /\ loanAmountEl \in LoanAmounts
  /\ roiStartEl \in AnnualRates
  /\ tenureEl \in 0..MaxTenure
  /\ Loaded
  /\ MathIdle

Next ==
  \/ generateBaseline
  \/ SetLoanAmount
  \/ SetRoiStart
  \/ SetTenure
  \/ EditDisbursement
  \/ EditPrepayment
  \/ EditRoi
  \/ applyUserChanges
  \/ AutoApplyTimeout

Spec == Init /\ [][Next]_vars

(***************************************************************************)
(* The annuity functions on their own                                      *)
(***************************************************************************)

\* Longest month count handed to calculateEMI.
MaxMathMonths == 6

\* Principals handed to calculateEMI: 10, 250 and 1000.
MathPrincipals == {10 * MoneyScale, 250 * MoneyScale, 1000 * MoneyScale}

\* Monthly rates handed to both functions: 0, 0.00625 (7.5% a year),
\* 0.01 (12%) and 0.02 (24%).
MathRates == {0, MonthlyRate(750), MonthlyRate(1200), MonthlyRate(2400)}

\* emi = calculateEMI(P, r, n)
MathEmi ==
  /\ mathPc = "start"
  /\ mathEmi' = calculateEMI(mathP, mathRate, mathN)
  /\ mathPc' = "emi"
  /\ UNCHANGED <<fieldVars, table, originalSchedule, currentSchedule,
                 displayVars, walkVars, scenarioVars, timerVars, lastHandler,
                 applyStreak, edits, mathP, mathRate, mathN, mathMonths>>

\* Math.ceil(calculateRemainingMonths(P, emi, r))
MathMonths ==
  /\ mathPc = "emi"
  /\ mathMonths' = calculateRemainingMonths(mathP, mathEmi, mathRate)
  /\ mathPc' = "done"
  /\ UNCHANGED <<fieldVars, table, originalSchedule, currentSchedule,
                 displayVars, walkVars, scenarioVars, timerVars, lastHandler,
                 applyStreak, edits, mathP, mathRate, mathN, mathEmi>>

\* The page loaded with empty loan fields, and the inputs of the functions.
InitMath ==
  /\ loanAmountEl = 0 /\ roiStartEl = 0 /\ tenureEl = 0
  /\ Loaded
  /\ mathP \in MathPrincipals
  /\ mathRate \in MathRates
  /\ mathN \in 1..MaxMathMonths
  /\ mathEmi = 0
  /\ mathMonths = 0
  /\ mathPc = "start"

NextMath == MathEmi \/ MathMonths

SpecMath == InitMath /\ [][NextMath]_vars

(***************************************************************************)
(* A small loan, with disbursements after its last EMI                     *)
(***************************************************************************)

\* The loan amount of the small loan: 0.0003, at 0%.
SmallLoan == 3 * Tolerance

\* Its tenures: 2 and 3 months.
SmallTenures == {2, 3}

\* Amounts typed into the disbursement input of month 2: 0.7497 (4998 EMIs
\* of the 2-month loan) and 2.
SmallDisbursements == {7497 * Tolerance, 2 * MoneyScale}

EditSmallDisbursement ==
  \E v \in SmallDisbursements \cup {0} : EditCell(2, "disb", v)

\* A rate change to 1200% typed into the rate input of month 2.
EditSmallRoi ==
  \E v \in {1200 * AnnualScale, Empty} : EditCell(2, "roi", v)

InitSmall ==
  /\ loanAmountEl = SmallLoan
  /\ roiStartEl = 0
  /\ tenureEl \in SmallTenures
  /\ Loaded
  /\ MathIdle

NextSmall ==
  \/ generateBaseline
  \/ EditSmallDisbursement
  \/ EditSmallRoi
  \/ applyUserChanges
  \/ AutoApplyTimeout

SpecSmall == InitSmall /\ [][NextSmall]_vars

(***************************************************************************)
(* Scenarios saved and loaded                                              *)
(***************************************************************************)

\* Starting rates of the saved scenarios: 0% and 12%.
ScenarioRates == {0, 12 * AnnualScale}

\* Their tenures: 1 and 2 months.
ScenarioTenures == {1, 2}

\* The first download of the session.
SaveOnce == file = NoScenario /\ saveScenario

\* The first selection of the downloaded file.
SelectOnce == loadedScenarioData = NoScenario /\ handleFileSelection

SetScenarioRoiStart ==
  /\ \E v \in ScenarioRates : roiStartEl' = v /\ v # roiStartEl
  /\ UNCHANGED <<loanAmountEl, tenureEl>>
  /\ FieldChanged

InitScenario ==
  /\ loanAmountEl = 20 * MoneyScale
  /\ roiStartEl \in ScenarioRates
  /\ tenureEl \in ScenarioTenures
  /\ Loaded
  /\ MathIdle

NextScenario ==
  \/ generateBaseline
  \/ SetScenarioRoiStart
  \/ EditDisbursement
  \/ EditPrepayment
  \/ applyUserChanges
  \/ AutoApplyTimeout
  \/ SaveOnce
  \/ SelectOnce
  \/ loadScenario
  \/ LoadTimeout

SpecScenario == InitScenario /\ [][NextScenario]_vars

(***************************************************************************)
(* Bursts of edits of the table inputs                                     *)
(***************************************************************************)

InitDebounce ==
  /\ loanAmountEl = 20 * MoneyScale
  /\ roiStartEl \in AnnualRates
  /\ tenureEl \in 1..MaxTenure
  /\ Loaded
  /\ MathIdle

NextDebounce ==
  \/ EditDisbursement
  \/ EditPrepayment
  \/ EditRoi
  \/ AutoApplyTimeout

\* A pending auto-apply timer leaves the set of pending timers: the step of
\* AutoApplyTimeout as the timers see it.
TimerExpires ==
  \E t \in autoApplyTimers : autoApplyTimers' = autoApplyTimers \ {t}

\* A timer that is set and not cleared fires: the browser runs the callback
\* of every pending timer once its delay has passed.
SpecDebounce ==
  InitDebounce /\ [][NextDebounce]_vars /\ WF_autoApplyTimers(TimerExpires)

(***************************************************************************)
(* A large loan, with rate changes that take its interest past the largest *)
(* number                                                                  *)
(***************************************************************************)

\* Loan amounts of the large loan: 1000 and 2000.
LargeLoans == {1000 * MoneyScale, 2000 * MoneyScale}

\* Its starting rates: 12% and 24%.
LargeRates == {12 * AnnualScale, 24 * AnnualScale}

\* Annual rates typed into its rate-change inputs: 1200% and 2400%.  A
\* balance above 1073.74 times the monthly rate 2.0 passes the largest number.
LargeRoiChanges == {1200 * AnnualScale, 2400 * AnnualScale}

EditLargeRoi ==
  \E m \in EditMonths, v \in LargeRoiChanges \cup {Empty} :
     EditCell(m, "roi", v)

InitLarge ==
  /\ loanAmountEl \in LargeLoans
  /\ roiStartEl \in LargeRates
  /\ tenureEl \in 1..MaxTenure
  /\ Loaded
  /\ MathIdle

NextLarge ==
  \/ generateBaseline
  \/ EditLargeRoi
  \/ EditPrepayment
  \/ applyUserChanges
  \/ AutoApplyTimeout

SpecLarge == InitLarge /\ [][NextLarge]_vars

(***************************************************************************)
(* Properties                                                              *)
(***************************************************************************)

\* The loan fields hold a valid loan.
ValidTerms == loanAmountEl > 0 /\ tenureEl >= 1

\* originalSchedule is the baseline just generated from the loan fields.
Generated == lastHandler = "generate"

\* currentSchedule holds the rows of the applyUserChanges just run, and the
\* loan fields are those it read.
Applied == lastHandler = "apply"

RECURSIVE SumPrincipal(_)
SumPrincipal(rows) ==
  IF rows = <<>> THEN 0
  ELSE SumPrincipal(SubSeq(rows, 1, Len(rows) - 1)) + rows[Len(rows)].principal

\* The balance a row opens with: the loan amount P for row 1, the closing
\* balance of the row before for the others.
OpeningBalance(rows, i, P) == IF i = 1 THEN P ELSE rows[i - 1].balance

\* The row carries a disbursement, prepayment or rate-change override.
HasOverride(row) ==
  row.disbursement > 0 \/ row.prepayment > 0 \/ row.roiChange # Empty

\* C1: for principal > 0, rate >= 0 and tenureMonths >= 1, generateBaseline
\* produces exactly tenureMonths rows, the rows' principal sums to the loan
\* principal and the last row's closing balance is 0, within 1e-4.
C1_BaselinePaysOff ==
  (Generated /\ ValidTerms) =>
    /\ Len(originalSchedule) = tenureEl
    /\ loanAmountEl - SumPrincipal(originalSchedule) <= Tolerance
    /\ SumPrincipal(originalSchedule) - loanAmountEl <= Tolerance
    /\ originalSchedule[Len(originalSchedule)].balance <= Tolerance

PaidOff == balance <= Tolerance

CapExceeded == monthCount > SAFE_MONTH_CAP

\* The stall guard's condition holds of the last emitted row.
StallFired ==
  /\ currentSchedule # <<>>
  /\ currentSchedule[Len(currentSchedule)].principal = 0
  /\ currentSchedule[Len(currentSchedule)].prepayment = 0
  /\ currentSchedule[Len(currentSchedule)].disbursement = 0
  /\ currentSchedule[Len(currentSchedule)].balance > Tolerance

\* The walk emitted one row per month counted, and at most 5000.
RowsWithinCap ==
  /\ Len(currentSchedule) <= SAFE_MONTH_CAP
  /\ Len(currentSchedule) = IF stalled THEN monthCount ELSE monthCount - 1

\* C2: the applyUserChanges walk emits at most SAFE_MONTH_CAP = 5000 rows,
\* and when it stops exactly one of these holds: the balance is <= 1e-4,
\* the month counter has exceeded 5000, or the stall guard fired on the
\* last emitted row.
C2_ExactlyOneExit ==
  Applied =>
    /\ RowsWithinCap
    /\ \/ (PaidOff /\ ~CapExceeded /\ ~StallFired)
       \/ (~PaidOff /\ CapExceeded /\ ~StallFired)
       \/ (~PaidOff /\ ~CapExceeded /\ StallFired)

\* C2 as amended: the applyUserChanges walk emits at most 5000 rows, and
\* when it stops at least one of these holds: the balance is <= 1e-4, the
\* month counter has exceeded 5000, or the stall guard fired on the last
\* emitted row; the first two hold together when month 5000 pays the loan
\* off, and the stall guard excludes the other two.
C2_SomeExit ==
  Applied =>
    /\ RowsWithinCap
    /\ PaidOff \/ CapExceeded \/ StallFired
    /\ StallFired <=> stalled
    /\ stalled => (~PaidOff /\ ~CapExceeded)

\* The walk stopped after month 5000 paid the loan off.
C2_Witness ==
  /\ Applied
  /\ Len(currentSchedule) = SAFE_MONTH_CAP
  /\ PaidOff
  /\ CapExceeded

\* interest >= 0, 0 <= principal <= opening balance and balance >= 0 in
\* every row; row 1 is held against the loan amount P when knowFirst.
RowBounds(rows, P, knowFirst) ==
  \A i \in 1..Len(rows) :
     /\ rows[i].interest >= 0
     /\ rows[i].principal >= 0
     /\ (i > 1 \/ knowFirst) => rows[i].principal <= OpeningBalance(rows, i, P)
     /\ rows[i].balance >= 0

\* C3: in every row of every schedule of generateBaseline or
\* applyUserChanges, interest >= 0, 0 <= principal <= the month's opening
\* balance, and the closing balance is >= 0.
C3_RowBounds ==
  /\ RowBounds(originalSchedule, loanAmountEl, Generated)
  /\ RowBounds(currentSchedule, loanAmountEl, Generated \/ Applied)

\* An applied schedule holds a month in which the EMI did not cover the
\* interest (principal floored at 0) and a month that paid less than the
\* EMI (principal capped at the balance).
C3_Witness ==
  /\ Applied
  /\ \E i \in 1..Len(currentSchedule) :
        /\ currentSchedule[i].principal = 0
        /\ currentSchedule[i].interest > currentSchedule[i].emi
  /\ \E i \in 1..Len(currentSchedule) :
        /\ currentSchedule[i].principal > 0
        /\ i > 1 => currentSchedule[i].principal = currentSchedule[i - 1].balance
        /\ currentSchedule[i].principal + currentSchedule[i].interest
             < currentSchedule[i].emi

\* The monthly rate in effect after month i of rows: that of the last rate
\* change in months 1..i, else the starting rate.
RateAfter(rows, i) ==
  LET changes == {j \in 1..i : rows[j].roiChange # Empty}
  IN  IF changes = {} THEN MonthlyRate(roiStartEl)
      ELSE MonthlyRate(rows[CHOOSE j \in changes :
                                 \A k \in changes : k <= j].roiChange)

Chained(rows) ==
  /\ \A i \in 1..Len(rows) :
        rows[i].balance =
          Max(0, OpeningBalance(rows, i, loanAmountEl) - rows[i].principal
                   + rows[i].disbursement - rows[i].prepayment)
  /\ \A i \in 1..(Len(rows) - 1) :
        rows[i + 1].interest = Times(rows[i].balance, RateAfter(rows, i))

\* C4: in every applyUserChanges schedule, row i+1's interest is row i's
\* closing balance times the monthly rate in effect for month i+1, and row
\* i's closing balance is max(0, opening balance - principal + disbursement
\* - prepayment).
C4_BalanceChaining == Applied => Chained(currentSchedule)

\* An applied schedule of three rows or more with a rate change before its
\* last row and a prepayment larger than the balance it meets.
C4_Witness ==
  /\ Applied
  /\ Len(currentSchedule) >= 3
  /\ \E i \in 1..(Len(currentSchedule) - 1) : currentSchedule[i].roiChange # Empty
  /\ \E i \in 2..Len(currentSchedule) :
        /\ currentSchedule[i].prepayment > currentSchedule[i].disbursement
        /\ currentSchedule[i].prepayment - currentSchedule[i].disbursement
             > currentSchedule[i - 1].balance - currentSchedule[i].principal

\* The rows of applyUserChanges for the loan fields with no override.
PlainRows ==
  WalkRun(WalkInit(loanAmountEl, roiStartEl, tenureEl),
          renderSchedule(<<>>), 8).schedule

\* The only override of rows is a net disbursement in month k, with no
\* rate change and months left to the target (the tenure) after k.
OnlyNetDisbursement(rows, k) ==
  /\ k <= Len(rows)
  /\ rows[k].disbursement > rows[k].prepayment
  /\ rows[k].roiChange = Empty
  /\ tenureEl - k > 0
  /\ \A j \in 1..Len(rows) : j # k => ~HasOverride(rows[j])

\* C5: for a valid loan whose only override is a net disbursement in month
\* k with targetRemainingMonths - k > 0 and no rate change, the
\* applyUserChanges schedule has as many rows as that of the same loan
\* without the disbursement.
C5_TenureHeld ==
  (Applied /\ ValidTerms) =>
    \A k \in EditMonths :
       OnlyNetDisbursement(currentSchedule, k) =>
         Len(currentSchedule) = Len(PlainRows)

\* The only override of rows is a prepayment in month k.
OnlyPrepayment(rows, k) ==
  /\ k <= Len(rows)
  /\ rows[k].prepayment > 0
  /\ rows[k].disbursement = 0
  /\ rows[k].roiChange = Empty
  /\ \A j \in 1..Len(rows) : j # k => ~HasOverride(rows[j])

\* C6: for a valid loan with rate > 0, a positive prepayment in any month
\* k, 1 <= k <= tenureMonths, of the baseline schedule (no other override)
\* gives a schedule whose completion month or total interest is strictly
\* smaller than the baseline's, and neither is larger.
C6_PrepaymentHelps ==
  (Applied /\ ValidTerms /\ roiStartEl > 0) =>
    \A k \in 1..tenureEl :
       (k \in EditMonths /\ OnlyPrepayment(currentSchedule, k)) =>
         LET base == BaselineRows(loanAmountEl, roiStartEl, tenureEl)
         IN  /\ Len(currentSchedule) <= Len(base)
             /\ SumInterest(currentSchedule) <= SumInterest(base)
             /\ \/ Len(currentSchedule) < Len(base)
                \/ SumInterest(currentSchedule) < SumInterest(base)

\* C7: applyUserChanges run again with no edit in between, reading its
\* overrides from the table the first run rendered, yields identical rows
\* and identical metrics.
C7_ApplyIdempotent ==
  [][(lastHandler = "apply" /\ lastHandler' = "apply") =>
       /\ currentSchedule' = currentSchedule
       /\ table' = table
       /\ displayVars' = displayVars]_vars

\* A second run in succession has left two rows or more, one carrying a
\* rate change to 0 and one a prepayment.
C7_Witness ==
  /\ Applied
  /\ applyStreak = 2
  /\ Len(currentSchedule) >= 2
  /\ \E i \in 1..Len(currentSchedule) : currentSchedule[i].roiChange = 0
  /\ \E i \in 1..Len(currentSchedule) : currentSchedule[i].prepayment > 0

PiecewiseEmi(rows) ==
  /\ \A i \in 2..Len(rows) :
        rows[i].emi # rows[i - 1].emi => HasOverride(rows[i])
  /\ (Len(rows) >= 1 /\ ~HasOverride(rows[1])) =>
        rows[1].emi = calculateEMI(loanAmountEl, MonthlyRate(roiStartEl), tenureEl)

\* C8: in every applyUserChanges schedule the emi of row i >= 2 differs
\* from that of row i-1 only if month i carries an override, and row 1's
\* emi is the baseline EMI unless month 1 carries an override.
C8_PiecewiseEmi == Applied => PiecewiseEmi(currentSchedule)

\* C9: for P > 0, r > 0 and n >= 1, with emi = calculateEMI(P, r, n), the
\* ceiling of calculateRemainingMonths(P, emi, r) is n.
C9_LeftInverse ==
  (mathPc = "done" /\ mathP > 0 /\ mathRate > 0 /\ mathN >= 1)
    => mathMonths = mathN

\* P / n on the money grid.
EvenShare == MulDivRound(loanAmountEl, 1, tenureEl)

ZeroRateBaseline == Generated /\ ValidTerms /\ roiStartEl = 0

\* C10: for annual rate 0, P > 0 and n >= 1, the baseline EMI is P / n,
\* every row's interest is 0 so total interest is 0, and every row's
\* principal is P / n.
C10_ZeroRate ==
  ZeroRateBaseline =>
    /\ \A i \in 1..Len(originalSchedule) :
          /\ originalSchedule[i].emi = EvenShare
          /\ originalSchedule[i].interest = 0
          /\ originalSchedule[i].principal = EvenShare
    /\ origTotalInterestEl = 0

\* C10 as amended: for annual rate 0, P > 0 and n >= 1, the baseline EMI
\* is P / n, every row's interest is 0 so total interest is 0, every row
\* but the last has principal P / n, and the last row's principal is the
\* smaller of P / n and the balance it opens with.
C10_ZeroRateAmended ==
  ZeroRateBaseline =>
    /\ originalSchedule # <<>>
    /\ \A i \in 1..Len(originalSchedule) :
          /\ originalSchedule[i].emi = EvenShare
          /\ originalSchedule[i].interest = 0
          /\ i < Len(originalSchedule) => originalSchedule[i].principal = EvenShare
          /\ i = Len(originalSchedule) =>
                originalSchedule[i].principal =
                  Min(EvenShare, OpeningBalance(originalSchedule, i, loanAmountEl))
    /\ origTotalInterestEl = 0

\* A zero-rate baseline of three rows whose last row pays less than P / n.
C10_Witness ==
  /\ ZeroRateBaseline
  /\ Len(originalSchedule) = 3
  /\ originalSchedule[2].principal = EvenShare
  /\ originalSchedule[3].principal < EvenShare
  /\ originalSchedule[3].principal > 0

\* C11: for invalid-range loan terms (principal <= 0 or tenureMonths <= 0)
\* calculateEMI returns 0, and generateBaseline and applyUserChanges both
\* produce a schedule with no rows.
C11_InvalidTermsNoRows ==
  ~ValidTerms =>
    /\ calculateEMI(loanAmountEl, MonthlyRate(roiStartEl), tenureEl) = 0
    /\ Generated => originalSchedule = <<>>
    /\ Applied => currentSchedule = <<>>

\* C13: after every applyUserChanges the total shown in totalDisbursementsEl
\* is the sum of the gross disbursement of all rows of the schedule, whatever
\* the prepayments of the same months.
C13_GrossDisbursements ==
  Applied => totalDisbursementsEl = toCurrency(SumDisbursement(currentSchedule))

\* The total interest of the baseline of the loan terms now in the fields.
BaselineInterest ==
  SumInterest(BaselineRows(loanAmountEl, roiStartEl, tenureEl))

\* C14: after every applyUserChanges, in any sequence of loan-term edits,
\* baseline generations and applies, the interest saved shown is
\* max(0, B - T) to the cent of the display, T the interest of the schedule
\* just computed and B the total interest of the baseline of the loan terms
\* that this recomputation read.
C14_InterestSaved ==
  Applied =>
    LET shown == toCurrency(Max(0, BaselineInterest - SumInterest(currentSchedule)))
    IN  /\ interestSavedEl - shown <= MoneyScale \div 100
        /\ shown - interestSavedEl <= MoneyScale \div 100

\* The EMI with which month i opens: the EMI recorded in the row before, or
\* for month 1 the initial EMI.
OpeningEmi(rows, i) ==
  IF i = 1
  THEN calculateEMI(loanAmountEl, MonthlyRate(roiStartEl), Max(1, tenureEl))
  ELSE rows[i - 1].emi

\* C15: in every row of the schedule of applyUserChanges the principal is
\* the emi recorded in that same row minus the row's interest, clamped to
\* [0, opening balance].
C15_PrincipalOfRowEmi ==
  Applied =>
    \A i \in 1..Len(currentSchedule) :
       currentSchedule[i].principal =
         PrincipalPortion(currentSchedule[i].emi, currentSchedule[i].interest,
                          OpeningBalance(currentSchedule, i, loanAmountEl))

\* C15 (amended): the principal of every row is the EMI with which its month
\* opened minus the row's interest, clamped to [0, opening balance]; the
\* row's own emi is that EMI unless the month's net disbursement replaced it.
C15_PrincipalOfOpeningEmi ==
  Applied =>
    \A i \in 1..Len(currentSchedule) :
       /\ currentSchedule[i].principal =
            PrincipalPortion(OpeningEmi(currentSchedule, i),
                             currentSchedule[i].interest,
                             OpeningBalance(currentSchedule, i, loanAmountEl))
       /\ currentSchedule[i].emi # OpeningEmi(currentSchedule, i) =>
            currentSchedule[i].disbursement > currentSchedule[i].prepayment

\* An applied schedule with a row whose EMI was replaced in its own month and
\* whose principal is not the one that EMI would pay.
C15_Witness ==
  /\ Applied
  /\ \E i \in 1..Len(currentSchedule) :
        /\ currentSchedule[i].emi # OpeningEmi(currentSchedule, i)
        /\ currentSchedule[i].principal #
             PrincipalPortion(currentSchedule[i].emi, currentSchedule[i].interest,
                              OpeningBalance(currentSchedule, i, loanAmountEl))
        /\ currentSchedule[i].principal > 0

\* The locals of the walk that produced the schedule now in the table, as
\* month m opens.
WalkBefore(m) ==
  IF m = 1 THEN WalkInit(loanAmountEl, roiStartEl, tenureEl)
  ELSE WalkChunk(WalkInit(loanAmountEl, roiStartEl, tenureEl), table, m - 1)

\* Row m took a net disbursement and left a positive balance.
NetDisbursementRow(m) ==
  /\ currentSchedule[m].disbursement > currentSchedule[m].prepayment
  /\ currentSchedule[m].balance > Tolerance

\* The EMI the net-disbursement rule computes in month m: calculateEMI of the
\* closing balance at the rate before the month's rate change over the
\* months left to the target.
DisbursementEmi(m) ==
  calculateEMI(currentSchedule[m].balance, WalkBefore(m).monthlyRate,
               WalkBefore(m).targetRemainingMonths - m)

\* C19: in every month m whose net disbursement is positive and whose
\* balance remains positive, the EMI is recomputed as calculateEMI(closing
\* balance, rate before the month's rate change, targetRemainingMonths - m)
\* and row m records that EMI.
C19_EmiRecomputed ==
  Applied =>
    \A m \in 1..Len(currentSchedule) :
       NetDisbursementRow(m) => currentSchedule[m].emi = DisbursementEmi(m)

\* C19 (amended): row m of such a month records the recomputed EMI when
\* months remain to the target and the recomputed EMI is positive, and the
\* EMI with which the month opened otherwise.
C19_EmiRecomputedWhileMonthsRemain ==
  Applied =>
    \A m \in 1..Len(currentSchedule) :
       NetDisbursementRow(m) =>
         currentSchedule[m].emi =
           IF WalkBefore(m).targetRemainingMonths - m > 0 /\ DisbursementEmi(m) > 0
           THEN DisbursementEmi(m)
           ELSE OpeningEmi(currentSchedule, m)

\* An applied schedule with a net disbursement in a month before the target
\* that replaced the EMI, and one in a month at or after the target.
C19_Witness ==
  /\ Applied
  /\ \E m \in 1..Len(currentSchedule) :
        /\ NetDisbursementRow(m)
        /\ WalkBefore(m).targetRemainingMonths - m > 0
        /\ currentSchedule[m].emi # OpeningEmi(currentSchedule, m)
  /\ \E m \in 1..Len(currentSchedule) :
        /\ NetDisbursementRow(m)
        /\ WalkBefore(m).targetRemainingMonths - m <= 0

\* No row of months lo..hi of rows has a rate change.
NoRateChange(rows, lo, hi) == \A k \in lo..hi : rows[k].roiChange = Empty

\* C20: in a month m with a rate change, row m's interest is the opening
\* balance times the monthly rate in effect before month m; the new rate
\* (newAnnual / 12 / 100) is first used for the interest of month m + 1 and
\* is the rate of every later month up to the next rate change.
C20_RateChangeNextMonth ==
  Applied =>
    \A m \in 1..Len(currentSchedule) :
       currentSchedule[m].roiChange # Empty =>
         /\ currentSchedule[m].interest =
              Times(OpeningBalance(currentSchedule, m, loanAmountEl),
                    RateAfter(currentSchedule, m - 1))
         /\ \A j \in (m + 1)..Len(currentSchedule) :
              NoRateChange(currentSchedule, m + 1, j - 1) =>
                currentSchedule[j].interest =
                  Times(currentSchedule[j - 1].balance,
                        MonthlyRate(currentSchedule[m].roiChange))

\* An applied schedule with a rate change to a different rate in a month
\* that bears interest and is followed by two months that bear interest.
C20_Witness ==
  /\ Applied
  /\ \E m \in 1..(Len(currentSchedule) - 2) :
        /\ currentSchedule[m].roiChange # Empty
        /\ MonthlyRate(currentSchedule[m].roiChange) # RateAfter(currentSchedule, m - 1)
        /\ currentSchedule[m].interest > 0
        /\ currentSchedule[m + 1].interest > 0
        /\ currentSchedule[m + 2].interest > 0
        /\ currentSchedule[m + 1].roiChange = Empty

\* Row m re-derived the tenure: it has a rate change or a net prepayment.
Rederived(m) ==
  \/ currentSchedule[m].roiChange # Empty
  \/ currentSchedule[m].prepayment > currentSchedule[m].disbursement

\* C12: whenever calculateRemainingMonths returns +infinity in a tenure
\* re-derivation of applyUserChanges, targetRemainingMonths keeps its value,
\* and no row holds an infinite or NaN emi, interest, principal or balance.
C12_InfinityNotPropagated ==
  Applied =>
    \A m \in 1..Len(currentSchedule) :
       /\ ( /\ Rederived(m)
            /\ ~isFinite(calculateRemainingMonths(currentSchedule[m].balance,
                                                  currentSchedule[m].emi,
                                                  RateAfter(currentSchedule, m))) )
          => WalkBefore(m + 1).targetRemainingMonths
               = WalkBefore(m).targetRemainingMonths
       /\ isFinite(currentSchedule[m].emi)
       /\ isFinite(currentSchedule[m].interest)
       /\ isFinite(currentSchedule[m].principal)
       /\ isFinite(currentSchedule[m].balance)

\* The downloaded file holds a scenario of a loan the calculator accepts: a
\* positive amount, a tenure of a month or more, a rate of 0% or more.
AcceptedScenario(data) ==
  data.loanAmount > 0 /\ data.tenureMonths >= 1 /\ data.roiStart >= 0

\* C16: saveScenario followed by handleFileSelection and loadScenario on the
\* saved file restores the loan amount, starting rate, tenure and the three
\* override maps of the file: the selection keeps every accepted scenario,
\* and once loadScenario has run the fields hold the file's terms and the
\* inputs its timer sets hold the file's three maps.
C16_RoundTrip ==
  /\ (lastHandler = "select" /\ AcceptedScenario(file))
       => loadedScenarioData = file
  /\ (lastHandler = "load" /\ loadTimeout)
       => collectScenarioData(loadedScenarioData.id,
                              SetInputs(table, loadedScenarioData))
            = loadedScenarioData

\* The step is a user's change of a loan field.
LoanTermChange == lastHandler' = "edit" /\ fieldVars' # fieldVars

\* The step is an applyUserChanges (by click or by the auto-apply timer)
\* that reads overrides changed since the table was rendered.
AppliedOverrideChange ==
  lastHandler' = "apply" /\ table # renderSchedule(currentSchedule)

\* C18: once the scenario has an id (after saveScenario or loadScenario),
\* every later change of the loan terms and every later applied change of
\* the overrides clears currentScenarioId and shows the scenario as modified
\* or not saved, in every sequence of save, load, edit, apply and generate.
C18_ChangeDetection ==
  [][(currentScenarioId # null /\ (LoanTermChange \/ AppliedOverrideChange))
       => /\ currentScenarioId' = null
          /\ currentScenarioIdEl' \in {Modified, NotSavedYet}]_vars

\* The step is the auto-apply timer firing.
TimerFires == autoApplyTimers' # autoApplyTimers /\ lastHandler' = "apply"

\* The rows of the schedule rows carry the values now in the table inputs.
ReadsInputs(rows) ==
  \A m \in EditMonths :
     m <= Len(rows) =>
       /\ rows[m].disbursement = disbursementsMapGet(table, m)
       /\ rows[m].prepayment = prepaymentsMapGet(table, m)
       /\ rows[m].roiChange = (IF roiMapHas(table, m) THEN roiMapGet(table, m)
                                ELSE Empty)

\* C17: edits of the override inputs are debounced.  Every input event
\* clears the pending auto-apply timer and sets a new one, so at most one
\* timer is pending at any time; a burst of edits is followed by one
\* applyUserChanges, no more, and that one reads the values the inputs hold
\* after the last edit.
C17_Debounced ==
  /\ [](Cardinality(autoApplyTimers) <= 1)
  /\ [](lastHandler = "edit" => autoApplyTimers = {autoApplyTimeout})
  /\ [][TimerFires => /\ autoApplyTimers' = {}
                       /\ applyStreak' = 1
                       /\ ReadsInputs(currentSchedule')]_vars
  /\ (autoApplyTimers # {}) ~> (autoApplyTimers = {} /\ Applied /\ applyStreak = 1)

\* The auto-apply timer has fired once after a burst of two edits of the
\* inputs, and the schedule carries both.
C17_Witness ==
  /\ Applied
  /\ autoApplyTimers = {}
  /\ burst = 2
  /\ applyStreak = 1
  /\ Cardinality({m \in EditMonths :
                    /\ m <= Len(currentSchedule)
                    /\ \/ currentSchedule[m].disbursement > 0
                       \/ currentSchedule[m].prepayment > 0
                       \/ currentSchedule[m].roiChange # Empty}) = 2

\* The net-disbursement rule replaced the EMI in month m.
EmiRecomputed(m) ==
  /\ NetDisbursementRow(m)
  /\ WalkBefore(m).targetRemainingMonths - m > 0
  /\ DisbursementEmi(m) > 0

\* Math.ceil(calculateRemainingMonths(balance, currentEMI, monthlyRate)) as
\* the re-derivations of month m compute it: on the closing balance, the EMI
\* of the row and the rate in effect after the month.
RemainingAfter(m) ==
  calculateRemainingMonths(currentSchedule[m].balance, currentSchedule[m].emi,
                           RateAfter(currentSchedule, m))

\* C21: in a month m with a rate change and no disbursement-driven EMI
\* recompute the EMI is left unchanged, and targetRemainingMonths becomes
\* m + ceil(calculateRemainingMonths(closing balance, EMI, new monthly rate))
\* whenever that value is finite.
C21_RateChangeMovesTarget ==
  Applied =>
    \A m \in 1..Len(currentSchedule) :
       (currentSchedule[m].roiChange # Empty /\ ~EmiRecomputed(m)) =>
         /\ currentSchedule[m].emi = OpeningEmi(currentSchedule, m)
         /\ isFinite(RemainingAfter(m)) =>
              WalkBefore(m + 1).targetRemainingMonths = m + RemainingAfter(m)

\* An applied schedule with a rate change alone in a month before its last
\* that moved the target.
C21_Witness ==
  /\ Applied
  /\ \E m \in 1..(Len(currentSchedule) - 1) :
        /\ currentSchedule[m].roiChange # Empty
        /\ currentSchedule[m].disbursement = 0
        /\ currentSchedule[m].prepayment = 0
        /\ isFinite(RemainingAfter(m))
        /\ WalkBefore(m + 1).targetRemainingMonths
             # WalkBefore(m).targetRemainingMonths

\* Row m has a net prepayment.
NetPrepaymentRow(m) ==
  currentSchedule[m].prepayment > currentSchedule[m].disbursement

\* C22: in a month m with a net prepayment the EMI is left unchanged (a
\* prepayment never changes the EMI), and when the month has no rate change
\* targetRemainingMonths becomes
\* m + ceil(calculateRemainingMonths(closing balance, EMI, monthly rate))
\* whenever that value is finite.
C22_PrepaymentMovesTarget ==
  Applied =>
    \A m \in 1..Len(currentSchedule) :
       NetPrepaymentRow(m) =>
         /\ currentSchedule[m].emi = OpeningEmi(currentSchedule, m)
         /\ (currentSchedule[m].roiChange = Empty /\ isFinite(RemainingAfter(m)))
              => WalkBefore(m + 1).targetRemainingMonths = m + RemainingAfter(m)

\* An applied schedule with a net prepayment, and no rate change, in a month
\* that left a balance and moved the target.
C22_Witness ==
  /\ Applied
  /\ \E m \in 1..(Len(currentSchedule) - 1) :
        /\ NetPrepaymentRow(m)
        /\ currentSchedule[m].roiChange = Empty
        /\ currentSchedule[m].balance > Tolerance
        /\ isFinite(RemainingAfter(m))
        /\ WalkBefore(m + 1).targetRemainingMonths
             # WalkBefore(m).targetRemainingMonths

\* Row m has both a rate change and a net disbursement that left a balance.
RateAndDisbursementRow(m) ==
  currentSchedule[m].roiChange # Empty /\ NetDisbursementRow(m)

\* C23: when a rate change and a net disbursement fall in the same month m,
\* the EMI is first recomputed from the closing balance with the old rate
\* over targetRemainingMonths - m months, and then targetRemainingMonths is
\* re-derived as m + ceil(calculateRemainingMonths(closing balance, new EMI,
\* new rate)).
C23_EmiThenTarget ==
  Applied =>
    \A m \in 1..Len(currentSchedule) :
       RateAndDisbursementRow(m) =>
         /\ currentSchedule[m].emi = DisbursementEmi(m)
         /\ WalkBefore(m + 1).targetRemainingMonths = Plus(m, RemainingAfter(m))

\* C23 (amended): in such a month the EMI is recomputed with the old rate
\* when months remain to the target (and is kept otherwise), and then the
\* target is re-derived from the row's EMI and the new rate when the months
\* left are finite (and is kept otherwise).
C23_EmiThenTargetWhenDefined ==
  Applied =>
    \A m \in 1..Len(currentSchedule) :
       RateAndDisbursementRow(m) =>
         /\ currentSchedule[m].emi =
              IF EmiRecomputed(m) THEN DisbursementEmi(m)
              ELSE OpeningEmi(currentSchedule, m)
         /\ WalkBefore(m + 1).targetRemainingMonths =
              IF isFinite(RemainingAfter(m)) THEN m + RemainingAfter(m)
              ELSE WalkBefore(m).targetRemainingMonths

\* An applied schedule with a rate change and a net disbursement in one
\* month before the target: the EMI was replaced by one that the new rate
\* would not give, and the target moved.
C23_Witness ==
  /\ Applied
  /\ \E m \in 1..Len(currentSchedule) :
        /\ RateAndDisbursementRow(m)
        /\ EmiRecomputed(m)
        /\ currentSchedule[m].emi # OpeningEmi(currentSchedule, m)
        /\ currentSchedule[m].emi #
             calculateEMI(currentSchedule[m].balance, RateAfter(currentSchedule, m),
                          WalkBefore(m).targetRemainingMonths - m)
        /\ isFinite(RemainingAfter(m))
        /\ WalkBefore(m + 1).targetRemainingMonths
             # WalkBefore(m).targetRemainingMonths

\* Row m pays no principal, carries no disbursement and no prepayment, and
\* closes above the tolerance.
NoProgressRow(m) ==
  /\ currentSchedule[m].principal = 0
  /\ currentSchedule[m].prepayment = 0
  /\ currentSchedule[m].disbursement = 0
  /\ currentSchedule[m].balance > Tolerance

\* C24: a row that pays no principal, carries neither disbursement nor
\* prepayment and closes above 1e-4 is the last row of the schedule, with or
\* without a rate change in that month; and a walk that ends above 1e-4
\* before month 5000 ends on such a row.
C24_StallGuard ==
  Applied =>
    /\ \A m \in 1..Len(currentSchedule) :
         NoProgressRow(m) => m = Len(currentSchedule)
    /\ (~PaidOff /\ Len(currentSchedule) < SAFE_MONTH_CAP) =>
         (currentSchedule # <<>> /\ NoProgressRow(Len(currentSchedule)))

\* The walk stopped before the cap on a no-progress month that carries a
\* rate change.
C24_Witness ==
  /\ Applied
  /\ currentSchedule # <<>>
  /\ Len(currentSchedule) < SAFE_MONTH_CAP
  /\ NoProgressRow(Len(currentSchedule))
  /\ currentSchedule[Len(currentSchedule)].roiChange # Empty
  /\ ~PaidOff

\* The override inputs of the table tbl in the rows 1..n are what the maps
\* read from the table held for those months before the walk.
RendersInputs(tbl, n) ==
  \A m \in EditMonths :
     m <= n =>
       /\ tbl.disb[m] = disbursementsMapGet(table, m)
       /\ tbl.prepay[m] = prepaymentsMapGet(table, m)
       /\ tbl.roi[m] = (IF roiMapHas(table, m) THEN roiMapGet(table, m)
                        ELSE Empty)

\* C25: every row m that applyUserChanges emits records the gross
\* disbursement, the gross prepayment and the rate change that the override
\* maps held for month m (0, 0 and null when unset), not their net, and
\* the table rendered from the rows holds those same values in its inputs.
C25_GrossOverrides ==
  [][lastHandler' = "apply" =>
       /\ \A m \in 1..Len(currentSchedule') :
            /\ currentSchedule'[m].disbursement = disbursementsMapGet(table, m)
            /\ currentSchedule'[m].prepayment = prepaymentsMapGet(table, m)
            /\ currentSchedule'[m].roiChange =
                 (IF roiMapHas(table, m) THEN roiMapGet(table, m) ELSE Empty)
       /\ table'.rows = Len(currentSchedule')
       /\ RendersInputs(table', Len(currentSchedule'))]_vars

\* An applied row holds both a disbursement and a prepayment, not their net,
\* and the table shows both.
C25_Witness ==
  /\ Applied
  /\ \E m \in EditMonths :
       /\ m <= Len(currentSchedule)
       /\ currentSchedule[m].disbursement > 0
       /\ currentSchedule[m].prepayment > 0
       /\ table.disb[m] = currentSchedule[m].disbursement
       /\ table.prepay[m] = currentSchedule[m].prepayment

\* No row of the applied schedule carries an override: the override maps
\* the walk read were empty for every month it reached.
EmptyOverrides == \A m \in 1..Len(currentSchedule) : ~HasOverride(currentSchedule[m])

\* C26: for every loan terms, the rows applyUserChanges emits from an empty
\* override set are the rows generateBaseline emits for the same terms:
\* same count and, row by row, same emi, interest, principal and balance.
C26_EmptyOverridesAreBaseline ==
  (Applied /\ EmptyOverrides) =>
    currentSchedule = BaselineRows(loanAmountEl, roiStartEl, tenureEl)

\* C27: whenever the applyUserChanges walk of a valid loan ends by payoff
\* (balance <= 1e-4), the number of rows equals the final
\* targetRemainingMonths, whatever the overrides.
C27_RowsEqualTarget ==
  (Applied /\ ValidTerms /\ PaidOff) =>
    Len(currentSchedule) = targetRemainingMonths

(***************************************************************************)
(* File selections of every kind, and loads racing with them               *)
(***************************************************************************)

\* Two scenario files saved in earlier sessions: 20 at 12% over 2 months
\* with a disbursement of 2 in month 1, and 20 at 24% over 3 months with a
\* prepayment of 3 in month 2.
ScenarioA ==
  [id            |-> "LOAN_A",
   loanAmount    |-> 20 * MoneyScale,
   roiStart      |-> 12 * AnnualScale,
   tenureMonths  |-> 2,
   disbursements |-> [m \in EditMonths |-> IF m = 1 THEN 2 * MoneyScale ELSE 0],
   prepayments   |-> [m \in EditMonths |-> 0],
   roiChanges    |-> [m \in EditMonths |-> Empty]]

ScenarioB ==
  [id            |-> "LOAN_B",
   loanAmount    |-> 20 * MoneyScale,
   roiStart      |-> 24 * AnnualScale,
   tenureMonths  |-> 3,
   disbursements |-> [m \in EditMonths |-> 0],
   prepayments   |-> [m \in EditMonths |-> IF m = 2 THEN 3 * MoneyScale ELSE 0],
   roiChanges    |-> [m \in EditMonths |-> Empty]]

\* A JSON file without tenureMonths.
ScenarioNoTenure == [ScenarioA EXCEPT !.tenureMonths = 0]

StoredFiles == {ScenarioA, ScenarioB, ScenarioNoTenure}

\* What the selection handlers leave alone.
SelectionFrame ==
  UNCHANGED <<fieldVars, table, originalSchedule, currentSchedule,
              displayVars, walkVars, idVars, file, timerVars, edits, mathVars>>

\* handleFileSelection() after the file chooser was emptied: no file.
handleFileSelectionNoFile ==
  /\ loadScenarioBtnDisabled' = TRUE
  /\ loadedScenarioData' = NoScenario
  /\ lastHandler' = "deselect"
  /\ applyStreak' = 0
  /\ SelectionFrame

\* handleFileSelection() with a file whose name does not end in ".json": the
\* error message is shown and the handler returns.
handleFileSelectionNotJson ==
  /\ lastHandler' = "rejected"
  /\ applyStreak' = 0
  /\ UNCHANGED <<loadedScenarioData, loadScenarioBtnDisabled>>
  /\ SelectionFrame

\* handleFileSelection() with a .json file that JSON.parse throws on: the
\* catch block of reader.onload.
handleFileSelectionUnparsable ==
  /\ loadScenarioBtnDisabled' = TRUE
  /\ loadedScenarioData' = NoScenario
  /\ lastHandler' = "rejected"
  /\ applyStreak' = 0
  /\ SelectionFrame

\* handleFileSelection() with a stored .json file that parses, and the
\* onload callback of its reader.
handleFileSelectionStored ==
  /\ \E jsonData \in StoredFiles :
        /\ loadedScenarioData' =
             IF ValidScenarioFile(jsonData) THEN jsonData ELSE NoScenario
        /\ loadScenarioBtnDisabled' = ~ValidScenarioFile(jsonData)
        /\ lastHandler' =
             IF ValidScenarioFile(jsonData) THEN "select" ELSE "rejected"
  /\ applyStreak' = 0
  /\ SelectionFrame

NextLoad ==
  \/ generateBaseline
  \/ applyUserChanges
  \/ handleFileSelectionNoFile
  \/ handleFileSelectionNotJson
  \/ handleFileSelectionUnparsable
  \/ handleFileSelectionStored
  \/ loadScenario
  \/ LoadTimeout

SpecLoad == InitScenario /\ [][NextLoad]_vars

\* The step is the 100 ms timer of loadScenario firing.
LoadTimerFires == loadTimeout /\ ~loadTimeout'

\* The scenario data is the scenario that loadScenario wrote to the page:
\* its id is the current scenario id and its terms are in the loan fields.
IsLoadedScenario(data) ==
  /\ data # NoScenario
  /\ data.id = currentScenarioId
  /\ data.loanAmount = loanAmountEl
  /\ data.roiStart = roiStartEl
  /\ data.tenureMonths = tenureEl

\* C28: whenever the 100 ms timer of loadScenario fires, loadedScenarioData
\* is not null and is the scenario whose terms loadScenario wrote to the
\* fields, whatever file selections happened while the timer was pending.
C28_DeferredStepSeesLoadedScenario ==
  [][LoadTimerFires => IsLoadedScenario(loadedScenarioData)]_vars

\* C29: right after a rejected file selection (a name not ending in .json,
\* unparsable JSON, or a missing required field) loadedScenarioData is null
\* and the Load button is disabled, and a loadScenario that follows changes
\* no loan term, override or schedule.
C29_RejectedSelectionClears ==
  [][lastHandler = "rejected" =>
       /\ loadedScenarioData = NoScenario
       /\ loadScenarioBtnDisabled
       /\ lastHandler' = "load" =>
            UNCHANGED <<fieldVars, table, originalSchedule, currentSchedule>>]_vars

====
